---------------------------- MODULE Spec2Model ----------------------------
(***************************************************************************)
(* CUR decomposition with SVD-leverage and PCovR column/row selection      *)
(* (src/utilities/CUR.py).                                                  *)
(*                                                                          *)
(* Arithmetic is exact.  Matrices are tuples of rows with integer entries   *)
(* and indices are 1-based (index i here is index i-1 of the code).  The    *)
(* inputs are drawn from the nonzero matrices in which every column has at  *)
(* most one nonzero entry: any two columns (and any two rows) of such a     *)
(* matrix are parallel or orthogonal, so the Gram matrix is a direct sum of *)
(* rank-one blocks, its eigenvectors are known in closed form, and the      *)
(* deflation M[:,i] -= v (v . M[:,i]) keeps the entries integral.  The      *)
(* working copy of a selection run is a record [M, Y, nan]; nan is set once *)
(* a column is divided by a zero norm (0/0), after which every entry is     *)
(* NaN.  Where a library call has no defined result (the leading singular   *)
(* vector of a zero or NaN matrix, an eigenvector of a repeated eigenvalue) *)
(* every result it can give is an outcome.                                  *)
(***************************************************************************)
EXTENDS Integers, Sequences, FiniteSets

VARIABLES A, fs, pif, Y, alphaN, symmetric, idx_c, idx_r, last, lossLog, probe

vars == <<A, fs, pif, Y, alphaN, symmetric, idx_c, idx_r, last, lossLog, probe>>

(* ------------------------------ bounds --------------------------------- *)
(* Matrices have 2..MaxRows rows and 2..MaxCols columns; the nonzero entry *)
(* of Y is in 1..MaxY; calls ask for 1..MaxN columns and 1..MaxNr rows.    *)
MaxRows == 3
MaxCols == 2
MaxY == 1
MaxN == 3
MaxNr == 2

(* None of Python as the value of idx_c / idx_r: the tuple <<0>>, 0 being  *)
(* no index; an index list is a tuple of indices otherwise.                *)
None == <<0>>
(* None of Python as the value of n_r; the counts asked for are >= 1.      *)
NoCount == 0

(* ------------------------- dense linear algebra ------------------------ *)
NRows(M) == Len(M)
NCols(M) == Len(M[1])
(* A vector or matrix with every entry evaluated (an ndarray). *)
Vec(v) == v \o <<>>
Mat(M) == [r \in 1..Len(M) |-> Vec(M[r])] \o <<>>
Col(M, j) == Vec([r \in 1..NRows(M) |-> M[r][j]])
Transpose(M) == Mat([c \in 1..NCols(M) |-> [r \in 1..NRows(M) |-> M[r][c]]])

RECURSIVE SumTo(_, _)
SumTo(s, n) == IF n = 0 THEN 0 ELSE s[n] + SumTo(s, n - 1)
SumSeq(s) == SumTo(s, Len(s))

Dot(u, v) == SumSeq([r \in 1..Len(u) |-> u[r] * v[r]])

(* cov = X^T X *)
Gram(M) ==
  Mat([i \in 1..NCols(M) |-> [j \in 1..NCols(M) |-> Dot(Col(M, i), Col(M, j))]])

IsZero(M) == \A r \in 1..NRows(M) : \A c \in 1..NCols(M) : M[r][c] = 0

Range(s) == {s[i] : i \in 1..Len(s)}
ListOf(idx) == IF idx = None THEN <<>> ELSE idx
Take(s, n) == Vec([i \in 1..(IF n < Len(s) THEN n ELSE Len(s)) |-> s[i]])

(* numpy argmax: the lowest index holding the maximum *)
argmax(pi) ==
  CHOOSE i \in 1..Len(pi) :
    \A j \in 1..Len(pi) : pi[j] <= pi[i] /\ (j < i => pi[j] < pi[i])

(* pi[idxs] = 0 *)
ZeroAt(pi, idxs) == Vec([j \in 1..Len(pi) |-> IF j \in Range(idxs) THEN 0 ELSE pi[j]])


(* --------------------------- Deflator ---------------------------------- *)
(* v = M[:,j] / sqrt(M[:,j] . M[:,j]);  M[:,i] -= v * (v . M[:,i]) for     *)
(* every column i, i.e. M[:,i] -= c (c . M[:,i]) / (c . c) with c = M[:,j]. *)
(* The quotient is exact on the matrices of the model.                     *)
deflate(M, j) ==
  LET G == Gram(M) IN
  Mat([r \in 1..NRows(M) |->
        [i \in 1..NCols(M) |-> (G[j][j] * M[r][i] - M[r][j] * G[j][i]) \div G[j][j]]])

ZeroNorm(M, j) == \A r \in 1..NRows(M) : M[r][j] = 0

(* One deflation step on a working copy: a zero norm gives v = 0/0 = NaN   *)
(* (numpy warns, it does not raise) and NaN then fills the whole copy.     *)
DeflateStep(wc, j) ==
  IF wc.nan \/ ZeroNorm(wc.M, j)
    THEN [wc EXCEPT !.nan = TRUE]
    ELSE [wc EXCEPT !.M = deflate(wc.M, j)]

(* ---------------------- truncated SVD, k = 1 --------------------------- *)
(* G is the Gram matrix X^T X.  The columns parallel to column j (those i  *)
(* with G[i][j] # 0) form the rank-one block of j; the eigenvalue of X^T X *)
(* on that block is the sum of their squared norms.                        *)
Sigma2(G, j) == SumSeq([i \in 1..Len(G) |-> IF G[i][j] # 0 THEN G[i][i] ELSE 0])
MaxOf(S) == CHOOSE x \in S : \A y \in S : y <= x

Indicator(n, j) == Vec([i \in 1..n |-> IF i = j THEN 1 ELSE 0])
(* What a decomposition hands back: the exception it raised (or "none")    *)
(* and the score vector pi.                                                *)
Scores(pi) == [err |-> "none", pi |-> pi]
Raise(e) == [err |-> e, pi |-> <<>>]
(* The squared components of the unit vector spanning the block of j.      *)
BlockScores(G, j) == Vec([i \in 1..Len(G) |-> IF G[i][j] # 0 THEN G[i][i] ELSE 0])
(* The blocks holding the largest of the eigenvalues lam, one column each. *)
TopBlocks(lam) ==
  LET top == MaxOf({lam[j] : j \in 1..Len(lam)}) IN {g \in 1..Len(lam) : lam[g] = top}

(* (S, v, D) = svd(Acopy, k); pi = (D[:k]**2.0).sum(axis=0).  The scores   *)
(* are the squared components of the leading right singular vector, here   *)
(* scaled by the leading eigenvalue.  When several blocks share the        *)
(* leading eigenvalue the vector is any unit vector of the eigenspace      *)
(* (ARPACK starts from a random vector): one outcome per block.  On a zero *)
(* or NaN working copy the library either fails or returns an arbitrary    *)
(* vector.                                                                 *)
svds(wc) ==
  LET n == NCols(wc.M)
      G == Gram(wc.M)
  IN  IF wc.nan \/ IsZero(wc.M)
        THEN {Scores(Indicator(n, j)) : j \in 1..n} \cup {Raise("ArpackError")}
        ELSE {Scores(BlockScores(G, j)) :
                j \in TopBlocks([g \in 1..n |-> Sigma2(G, g)])}

(* ------------------------- svd_select ---------------------------------- *)
(* An outcome of a selection run: the list as the run leaves it (the list  *)
(* passed as idxs is appended to in place), the exception that left the    *)
(* run (or "none"), why the run returned before n rounds (or "none"), and  *)
(* the working copy at the end.                                            *)
Outcome(idxs, err, early, wc) == [idxs |-> idxs, err |-> err, early |-> early, wc |-> wc]

RECURSIVE svd_rounds(_, _, _, _)
(* Lines 72-76 with column idxs[nn], then the rounds that follow. *)
svd_step(wc, nn, n, idxs) ==
  UNION {svd_rounds(w, nn + 1, n, idxs) : w \in {DeflateStep(wc, idxs[nn + 1])}}

svd_rounds(wc, nn, n, idxs) ==
  IF nn >= n THEN {Outcome(idxs, "none", "none", wc)}
  ELSE IF nn >= Len(idxs)
    THEN LET ds == svds(wc) IN
         {Outcome(idxs, d.err, "none", wc) : d \in {x \in ds : x.err # "none"}}
         \cup UNION {
           svd_step(wc, nn, n, l)
           : l \in {Append(idxs, argmax(ZeroAt(d.pi, idxs))) :
                      d \in {x \in ds : x.err = "none"}}}
    ELSE svd_step(wc, nn, n, idxs)

(* A selection that does not resume: it starts from an empty list whatever *)
(* list it is handed.                                                      *)
svd_select_fresh(M, n, idxs) ==
  svd_rounds([M |-> M, Y |-> <<>>, nan |-> FALSE], 0, n, <<>>)

svd_select(M, n, idxs) ==
  svd_rounds([M |-> M, Y |-> <<>>, nan |-> FALSE], 0, n, ListOf(idxs))

(* --------------------------- get_Ct ------------------------------------ *)
(* alpha = alphaN / AlphaDen *)
AlphaDen == 2

(* X^T Y *)
XtY(M, Yc) == Vec([j \in 1..NCols(M) |-> Dot(Col(M, j), Yc)])

(* (u . Y)^2 for the unit vector u along column j: the weight of the block *)
(* of j in C_lr = Csqrt Cinv X^T Y (Csqrt Cinv X^T Y)^T.                   *)
T2(G, xty, j) == IF G[j][j] = 0 THEN 0 ELSE (xty[j] * xty[j]) \div G[j][j]

(* AlphaDen times the eigenvalue of C = alpha*C_pca + (1-alpha)*C_lr on    *)
(* the block of column j.  Y has at most one nonzero row, so C_lr is       *)
(* diagonal in the basis of the blocks and C keeps the eigenvectors of cov.*)
CtEig(G, xty, aN, j) == aN * Sigma2(G, j) + (AlphaDen - aN) * T2(G, xty, j)

(* sorted_eig(cov, thresh=regularization) keeps the eigenvalues above      *)
(* 1e-6; the entries are integers, so those are the nonzero ones.  With no *)
(* eigenvalue kept the construction fails (rank deficiency).               *)
RankDeficient(wc) == IsZero(wc.M)

(* The exception get_Ct ends with, or "none". *)
get_Ct_err(wc) ==
  IF wc.nan THEN "LinAlgError"
  ELSE IF RankDeficient(wc) THEN "RankDeficiencyError"
  ELSE IF NRows(wc.M) # Len(wc.Y) THEN "ValueError"
  ELSE "none"

(* get_Ct: the exception, and C given by its eigenvalue on each block.     *)
get_Ct(wc, aN) ==
  LET e == get_Ct_err(wc)
      G == Gram(wc.M)
      xty == XtY(wc.M, wc.Y)
  IN  [err |-> e,
       lam |-> IF e # "none" THEN <<>>
               ELSE [j \in 1..NCols(wc.M) |-> CtEig(G, xty, aN, j)]]

(* v_Ct, U_Ct = sorted_eig(Ct, n=k); pi = (real(U_Ct)[:, :k]**2).sum(1):   *)
(* the squared components of the leading eigenvector of Ct, one outcome    *)
(* per block holding the leading eigenvalue; any vector when Ct = 0.       *)
sorted_eig_top(M, Ct) ==
  LET n == NCols(M)
      G == Gram(M)
  IN  IF \A j \in 1..n : Ct.lam[j] = 0
        THEN {Scores(Indicator(n, j)) : j \in 1..n}
        ELSE {Scores(BlockScores(G, j)) : j \in TopBlocks(Ct.lam)}

(* --------------------------- update ------------------------------------ *)
(* One column per direction among the columns X_c = M[:, idxs].            *)
Reps(G, idxs) ==
  {j \in Range(idxs) : G[j][j] # 0 /\ \A i \in Range(idxs) : G[i][j] # 0 => i >= j}

(* The projection of x on the span of the columns reps of M, G = M^T M.    *)
ProjOn(M, G, reps, x) ==
  LET xtx == XtY(M, x) IN
  Vec([r \in 1..NRows(M) |->
         SumSeq([j \in 1..NCols(M) |->
                   IF j \in reps THEN (M[r][j] * xtx[j]) \div G[j][j] ELSE 0])])

(* X_c pinv(X_c^T X_c) X_c^T x: the projection of x on the span of the     *)
(* columns X_c = M[:, idxs] (pinv(X) X likewise, applied to the rows).     *)
Proj(M, idxs, x) == LET G == Gram(M) IN ProjOn(M, G, Reps(G, idxs), x)

(* Y_copy -= np.matmul(X_c pinv(X_c^T X_c) X_c^T, Y_copy) *)
update(Yc, M, idxs) ==
  LET H == Proj(M, idxs, Yc) IN Vec([r \in 1..Len(Yc) |-> Yc[r] - H[r]])

(* The exception update ends with: pinv of a NaN matrix does not converge, *)
(* and the product with Y needs matching row counts.                       *)
update_err(wc) ==
  IF wc.nan THEN "LinAlgError"
  ELSE IF NRows(wc.M) # Len(wc.Y) THEN "ValueError"
  ELSE "none"

(* ------------------------- pcovr_select -------------------------------- *)
(* A selection without the try/except around get_Ct: the failure leaves    *)
(* the run as an exception.                                                *)
OnCtFailure_raise(idxs, e, wc) == Outcome(idxs, e, "none", wc)

(* except: print("Only {} features possible"); return list(idxs)           *)
OnCtFailure(idxs, e, wc) == Outcome(idxs, "none", e, wc)

RECURSIVE pcovr_rounds(_, _, _, _, _)
(* Lines 107-112 with column idxs[nn], then the rounds that follow. *)
pcovr_step(wc, nn, n, aN, idxs) ==
  UNION {
    IF update_err(w) # "none" THEN {Outcome(idxs, update_err(w), "none", w)}
    ELSE UNION {pcovr_rounds(w2, nn + 1, n, aN, idxs)
                 : w2 \in {[w EXCEPT !.Y = update(w.Y, w.M, idxs)]}}
    : w \in {DeflateStep(wc, idxs[nn + 1])}}

pcovr_rounds(wc, nn, n, aN, idxs) ==
  IF nn >= n THEN {Outcome(idxs, "none", "none", wc)}
  ELSE IF nn >= Len(idxs)
    THEN LET Ct == get_Ct(wc, aN) IN
         IF Ct.err # "none" THEN {OnCtFailure(idxs, Ct.err, wc)}
         ELSE UNION {
                pcovr_step(wc, nn, n, aN, l)
                : l \in {Append(idxs, argmax(ZeroAt(d.pi, idxs))) :
                           d \in sorted_eig_top(wc.M, Ct)}}
    ELSE pcovr_step(wc, nn, n, aN, idxs)

pcovr_select(M, n, Yp, aN, idxs) ==
  pcovr_rounds([M |-> M, Y |-> Yp, nan |-> FALSE], 0, n, aN, ListOf(idxs))


(* ------------------------------- CUR ----------------------------------- *)
(* symmetry_tolerance = SymTolNum / SymTolDen = 1e-4 *)
SymTolNum == 1
SymTolDen == 10000

IsSquare(M) == NRows(M) = NCols(M)
(* np.all(np.abs(A - A.T)): no entry of A - A.T is zero *)
AllNonzero(M) ==
  \A r \in 1..NRows(M) : \A c \in 1..NCols(M) : M[r][c] - M[c][r] # 0
BoolAsInt(b) == IF b THEN 1 ELSE 0

(* A flag that is never set. *)
never_symmetric(M) == FALSE

(* self.symmetric = self.A.shape == self.A.T.shape and                     *)
(*     np.all(np.abs(self.A-self.A.T)) < symmetry_tolerance                *)
(* The comparison is applied to the truth value np.all returns.            *)
symmetric_flag(M) ==
  IsSquare(M) /\ BoolAsInt(AllNonzero(M)) * SymTolDen < SymTolNum

(* selections.get(pi_function) applied with **params *)
select(M, n, idxs) ==
  IF pif = "svd" THEN svd_select(M, n, idxs)
  ELSE pcovr_select(M, n, Y, alphaN, idxs)

AllColumns(M) == Vec([i \in 1..NCols(M) |-> i])

(* The list object a run was handed is appended to in place: a cached list *)
(* holds what the run left in it, also when the run raised.                *)
InPlace(cached, o) == IF cached = None THEN None ELSE o.idxs

(* What compute_idx hands back: the two lists (ret_c, ret_r) or the        *)
(* exception, and the cached lists as the call leaves them.                *)
IdxResult(rc, rr, err, mc, mr, ce, re, wc) ==
  [ret_c |-> rc, ret_r |-> rr, err |-> err, mut_c |-> mc, mut_r |-> mr,
   colEarly |-> ce, rowEarly |-> re, wc |-> wc]

(* idx_r = idx_c (symmetric, not feature-select): one list object under    *)
(* both names once compute has stored it.                                  *)
Aliased == symmetric /\ ~fs /\ idx_c # None

row_select(oc, n_r, rows) ==
  LET mc == InPlace(idx_c, oc) IN
  IF fs THEN {IdxResult(oc.idxs, AllColumns(A), "none", mc, idx_r, oc.early, "none", oc.wc)}
  ELSE IF ~symmetric
    THEN IF n_r = NoCount
           THEN {IdxResult(<<>>, <<>>, "TypeError", mc, idx_r, oc.early, "none", oc.wc)}
           ELSE {IdxResult(oc.idxs, o.idxs, o.err, mc, InPlace(idx_r, o),
                           oc.early, o.early, oc.wc)
                  : o \in rows}
  ELSE {IdxResult(oc.idxs, oc.idxs, "none", mc, IF Aliased THEN mc ELSE idx_r,
                  oc.early, "none", oc.wc)}

compute_idx(n_c, n_r) ==
  LET rows == IF fs \/ symmetric \/ n_r = NoCount THEN {}
              ELSE select(Transpose(A), n_r, idx_r)
  IN
  UNION {
    IF oc.err # "none"
      THEN {IdxResult(<<>>, <<>>, oc.err, InPlace(idx_c, oc),
                      IF Aliased THEN InPlace(idx_c, oc) ELSE idx_r,
                      oc.early, "none", oc.wc)}
      ELSE row_select(oc, n_r, rows)
    : oc \in select(A, n_c, idx_c)}

(* n_r as compute resolves it from the mode flags *)
resolve_n_r(n_c, n_r) ==
  IF fs THEN NCols(A)
  ELSE IF symmetric /\ n_r = NoCount THEN n_c
  ELSE n_r

NoWc == [M |-> <<>>, Y |-> <<>>, nan |-> FALSE]

(* What compute does: the cached lists after the call, the local idx_c and *)
(* idx_r that A_c and A_r are sliced with, and the exception if any.       *)
ComputeResult(c, r, err, uc, ur, hit, ce, re, wc) ==
  [idx_c |-> c, idx_r |-> r, err |-> err, usedC |-> uc, usedR |-> ur,
   hit |-> hit, colEarly |-> ce, rowEarly |-> re, wc |-> wc]

FromIdx(x) ==
  IF x.err # "none"
    THEN ComputeResult(x.mut_c, x.mut_r, x.err, <<>>, <<>>, FALSE,
                       x.colEarly, x.rowEarly, x.wc)
    ELSE ComputeResult(x.ret_c, x.ret_r, "none", x.ret_c, x.ret_r, FALSE,
                       x.colEarly, x.rowEarly, x.wc)

(* idx_c = self.idx_c[:n_c]; idx_r = self.idx_r[:n_r] *)
cache_slice(n_c, n_r) ==
  ComputeResult(idx_c, idx_r, "none", Take(idx_c, n_c), Take(idx_r, n_r), TRUE,
                "none", "none", NoWc)

compute(n_c, n_rArg) ==
  LET n_r == resolve_n_r(n_c, n_rArg) IN
  IF idx_c = None \/ (~fs /\ idx_r = None)
    THEN {FromIdx(x) : x \in compute_idx(n_c, n_r)}
  ELSE IF Len(idx_c) < n_c
    THEN {FromIdx(x) : x \in compute_idx(n_c, n_r)}
  ELSE IF n_r = NoCount
    THEN {ComputeResult(idx_c, idx_r, "TypeError", <<>>, <<>>, FALSE, "none", "none", NoWc)}
  ELSE IF Len(idx_r) < n_r
    THEN {FromIdx(x) : x \in compute_idx(n_c, n_r)}
  ELSE {cache_slice(n_c, n_r)}

(* A_c = self.A[:, idx_c] *)
A_c(uc) == Mat([r \in 1..NRows(A) |-> [k \in 1..Len(uc) |-> A[r][uc[k]]]])
(* A_r = A_c.T (symmetric), self.A.copy() (feature-select), self.A[idx_r, :] *)
A_r(uc, ur) ==
  IF symmetric /\ ~fs THEN Transpose(A_c(uc))
  ELSE IF fs THEN A
  ELSE Mat([k \in 1..Len(ur) |-> A[ur[k]]])


(* A_c S A_r with S = pinv(A_c) A pinv(A_r): A projected on the column     *)
(* space of A_c from the left and on the row space of A_r from the right.  *)
approx(uc, ur) ==
  LET Ac == A_c(uc)
      Ar == A_r(uc, ur)
      ArT == Transpose(Ar)
      Zero == Mat([r \in 1..NRows(A) |-> [c \in 1..NCols(A) |-> 0]])
      Gc == Gram(Ac)
      Gr == Gram(ArT)
      repsC == Reps(Gc, AllColumns(Ac))
      repsR == Reps(Gr, AllColumns(ArT))
      PA == Transpose([c \in 1..NCols(A) |-> ProjOn(Ac, Gc, repsC, Col(A, c))])
  IN  IF Len(uc) = 0 \/ Len(Ar) = 0 THEN Zero
      ELSE Mat([r \in 1..NRows(A) |-> ProjOn(ArT, Gr, repsR, PA[r])])

Frob2(M) ==
  SumSeq([r \in 1..NRows(M) |-> SumSeq([c \in 1..NCols(M) |-> M[r][c] * M[r][c]])])

(* The value loss returns is sqrt(loss2 / Frob2(A)); A is not the zero     *)
(* matrix, and on one instance the values are ordered as loss2 is.         *)
loss2(uc, ur) ==
  LET B == approx(uc, ur) IN
  Frob2(Mat([r \in 1..NRows(A) |-> [c \in 1..NCols(A) |-> A[r][c] - B[r][c]]]))

(* ------------------------ the calls on an instance --------------------- *)
(* last: the call made last, the length of the column cache it found, what *)
(* it returned (the index lists A_c and A_r were sliced with, the loss),   *)
(* the exception that left it, why its selection runs stopped early (what  *)
(* "Only {} features possible" was printed for; prevEarly: the same of the *)
(* column run of the call before, if that call returned), and the working  *)
(* copy of Y its column run ended with.                                    *)
NoCall ==
  [op |-> "init", n_c |-> 0, n_r |-> NoCount, err |-> "none", hit |-> FALSE,
   usedC |-> <<>>, usedR |-> <<>>, lenBefore |-> 0,
   colEarly |-> "none", rowEarly |-> "none", prevEarly |-> "none",
   Yend |-> <<>>, nanEnd |-> FALSE, loss |-> 0]

Called(op, n_c, n_r, res, lossval) ==
  [op |-> op, n_c |-> n_c, n_r |-> n_r, err |-> res.err, hit |-> res.hit,
   usedC |-> res.usedC, usedR |-> res.usedR, lenBefore |-> Len(ListOf(idx_c)),
   colEarly |-> res.colEarly, rowEarly |-> res.rowEarly,
   prevEarly |-> IF last.err = "none" THEN last.colEarly ELSE "none",
   Yend |-> res.wc.Y, nanEnd |-> res.wc.nan, loss |-> lossval]

Counts == 1..MaxN
RowCounts == {NoCount} \cup (1..MaxNr)

Fixed == UNCHANGED <<A, fs, pif, Y, alphaN, symmetric, probe>>

Compute(n_c, n_r) ==
  \E res \in compute(n_c, n_r) :
    /\ idx_c' = res.idx_c
    /\ idx_r' = res.idx_r
    /\ last' = Called("compute", n_c, n_r, res, 0)
    /\ UNCHANGED lossLog
    /\ Fixed

(* self.P = compute_P(A_c, S, A_r); P is a function of the triple that     *)
(* compute(n_c) returned, which last records.                              *)
ComputeP(n_c) ==
  \E res \in compute(n_c, NoCount) :
    /\ idx_c' = res.idx_c
    /\ idx_r' = res.idx_r
    /\ last' = Called("compute_P", n_c, NoCount, res, 0)
    /\ UNCHANGED lossLog
    /\ Fixed

LossValue(res) == IF res.err = "none" THEN loss2(res.usedC, res.usedR) ELSE 0

(* A loss call; log: whether the call and the value it returned are added  *)
(* to lossLog, the record of the values loss has returned.                 *)
LossCall(n_c, n_r, log) ==
  \E res \in compute(n_c, n_r) :
    /\ idx_c' = res.idx_c
    /\ idx_r' = res.idx_r
    /\ last' = Called("loss", n_c, n_r, res, LossValue(res))
    /\ lossLog' = IF log /\ res.err = "none"
                    THEN lossLog \cup {[n_c |-> n_c, n_r |-> n_r, loss |-> LossValue(res)]}
                    ELSE lossLog
    /\ Fixed

Loss(n_c, n_r) == LossCall(n_c, n_r, FALSE)

LossLogged(n_c, n_r) == LossCall(n_c, n_r, TRUE)

(* compute_idx called on the instance: the lists are returned, not stored; *)
(* the cached lists it passes as idxs are appended to in place.            *)
ComputeIdx(n_c, n_r) ==
  \E x \in compute_idx(n_c, n_r) :
    /\ idx_c' = x.mut_c
    /\ idx_r' = x.mut_r
    /\ last' = Called("compute_idx", n_c, n_r,
                      ComputeResult(x.mut_c, x.mut_r, x.err, x.ret_c, x.ret_r, FALSE,
                                    x.colEarly, x.rowEarly, x.wc), 0)
    /\ UNCHANGED lossLog
    /\ Fixed

(* ------------------------------ inputs --------------------------------- *)
(* The nonzero m x n matrices with at most one nonzero entry per column,   *)
(* the entry of column c being n + 1 - c: columns in different rows have   *)
(* different norms.                                                        *)
Matrices(m, n) ==
  {Mat([r \in 1..m |-> [c \in 1..n |-> IF pos[c] = r THEN n + 1 - c ELSE 0]]) :
     pos \in {p \in [1..n -> 0..m] : \E c \in 1..n : p[c] # 0}}

Shapes == {<<m, n>> : m \in 2..MaxRows, n \in 2..MaxCols}

(* Y (one property, n_rows x 1) with at most one nonzero row *)
Properties(m) ==
  {Vec([r \in 1..m |-> IF r = p THEN y ELSE 0]) : p \in 0..m, y \in 1..MaxY}

(* probe: the outcomes of a direct and of a resumed selection run.         *)
NoProbe == [direct |-> [n |-> 0, out |-> {}], resumed |-> [n |-> 0, m |-> 0, out |-> {}]]

(* CUR(matrix, feature_select=f, pi_function=p, params={Y: y, alpha: a})   *)
(* with precompute=None.                                                   *)
Constructed(M, f, p, y, a) ==
  /\ A = M
  /\ fs = f
  /\ pif = p
  /\ Y = y
  /\ alphaN = a
  /\ symmetric = symmetric_flag(M)
  /\ idx_c = None
  /\ idx_r = None
  /\ last = NoCall
  /\ lossLog = {}
  /\ probe = NoProbe

Init ==
  \E sh \in Shapes : \E M \in Matrices(sh[1], sh[2]) : \E f \in BOOLEAN :
    Constructed(M, f, "svd", <<>>, 0)

InitPcovr ==
  \E sh \in Shapes : \E M \in Matrices(sh[1], sh[2]) :
    \E y \in Properties(sh[1]) : \E a \in 0..AlphaDen :
      Constructed(M, FALSE, "pcovr", y, a)

Next ==
  \/ \E n_c \in Counts, n_r \in RowCounts : Compute(n_c, n_r)
  \/ \E n_c \in Counts, n_r \in RowCounts : Loss(n_c, n_r)
  \/ \E n_c \in Counts : ComputeP(n_c)
  \/ \E n_c \in Counts, n_r \in RowCounts : ComputeIdx(n_c, n_r)

Spec == Init /\ [][Next]_vars

SpecPcovr == InitPcovr /\ [][Next]_vars

(* ------------------------ loss calls, recorded -------------------------- *)
(* Diagonal matrices, the symmetric matrices among Matrices(n, n), with at *)
(* most one zero on the diagonal.                                          *)
LossDim == 4
Diagonal(n) ==
  {M \in Matrices(n, n) :
     /\ \A r, c \in 1..n : r # c => M[r][c] = 0
     /\ Cardinality({c \in 1..n : M[c][c] = 0}) <= 1}

InitLoss == \E M \in Diagonal(LossDim) : Constructed(M, FALSE, "svd", <<>>, 0)

NextLoss ==
  \E n_c \in 1..(LossDim - 1), n_r \in {NoCount, LossDim} : LossLogged(n_c, n_r)

SpecLoss == InitLoss /\ [][NextLoss]_vars

(* ------------------- selection runs, direct and resumed ----------------- *)
SelectCols == 3

(* pcovr_select(A, n, Y, alpha) from an empty list *)
DirectRun(n) ==
  /\ probe' = [probe EXCEPT !.direct = [n |-> n, out |-> pcovr_select(A, n, Y, alphaN, None)]]
  /\ UNCHANGED <<A, fs, pif, Y, alphaN, symmetric, idx_c, idx_r, last, lossLog>>

(* pcovr_select(A, n + m, Y, alpha, idxs=cached) with cached the n indices *)
(* a run for n returned.                                                   *)
ResumedRun(n, m) ==
  LET first == {o \in pcovr_select(A, n, Y, alphaN, None) :
                  o.err = "none" /\ o.early = "none"}
  IN
  /\ probe' = [probe EXCEPT !.resumed =
        [n |-> n, m |-> m,
         out |-> UNION {pcovr_select(A, n + m, Y, alphaN, o.idxs) : o \in first}]]
  /\ UNCHANGED <<A, fs, pif, Y, alphaN, symmetric, idx_c, idx_r, last, lossLog>>

InitSelect ==
  \E m \in 2..MaxRows : \E M \in Matrices(m, SelectCols) :
    \E y \in Properties(m) : \E a \in 0..AlphaDen :
      Constructed(M, FALSE, "pcovr", y, a)

NextSelect ==
  \/ \E n \in 1..SelectCols : DirectRun(n)
  \/ \E n \in 1..(SelectCols - 1) : \E m \in 1..(SelectCols - n) : ResumedRun(n, m)

SpecSelect == InitSelect /\ [][NextSelect]_vars

(* ------------------------------ claims --------------------------------- *)
Abs(x) == IF x < 0 THEN -x ELSE x
IsPrefix(s, t) == Len(s) <= Len(t) /\ \A i \in 1..Len(s) : s[i] = t[i]
NoDup(s) == \A i, j \in 1..Len(s) : i # j => s[i] # s[j]

(* A is square and every entry of |A - A^T| is below symmetry_tolerance.   *)
WithinTolerance(M) ==
  /\ IsSquare(M)
  /\ \A r \in 1..NRows(M) : \A c \in 1..NCols(M) :
       Abs(M[r][c] - M[c][r]) * SymTolDen < SymTolNum

StoringCalls == {"compute", "loss", "compute_P"}

(* C1: no index list - the lists a selection returned to the last call and *)
(* the cached idx_c and idx_r - holds the same index twice, whatever calls *)
(* were made and whatever count was asked for.                             *)
C1_NoDuplicateIndex ==
  /\ NoDup(ListOf(idx_c))
  /\ NoDup(ListOf(idx_r))
  /\ NoDup(last.usedC)
  /\ NoDup(last.usedR)

(* The rows A_r is made of: A_r = A_c.T in symmetric mode. *)
RowsUsed == IF symmetric /\ ~fs THEN last.usedC ELSE last.usedR

(* C2: with SVD selection and feature-select off, a compute(n_c, n_r) with *)
(* n_c <= n_cols and n_r <= n_rows that returns hands back A_c made of     *)
(* exactly the first n_c cached columns and A_r made of exactly the first  *)
(* n_r cached rows, whatever calls preceded it.                            *)
C2_ExactlyTheRequestedCounts ==
  (/\ pif = "svd" /\ ~fs
   /\ last.op = "compute" /\ last.err = "none"
   /\ last.n_c <= NCols(A)
   /\ resolve_n_r(last.n_c, last.n_r) <= NRows(A))
  => /\ Len(last.usedC) = last.n_c
     /\ last.usedC = Take(ListOf(idx_c), last.n_c)
     /\ Len(RowsUsed) = resolve_n_r(last.n_c, last.n_r)
     /\ RowsUsed = Take(ListOf(idx_r), resolve_n_r(last.n_c, last.n_r))

(* C3, the lists: a cached list is a list that one selection run for that  *)
(* many indices, started from an empty list, can return.                   *)
C3_AsOneRequest ==
  /\ idx_c # None =>
       \E o \in svd_select(A, Len(idx_c), None) : o.idxs = idx_c
  /\ (idx_r # None /\ ~fs /\ ~symmetric) =>
       \E o \in svd_select(Transpose(A), Len(idx_r), None) : o.idxs = idx_r

(* C3: the cached lists only grow: the idx_c (idx_r) held before a call is *)
(* a prefix of the idx_c (idx_r) held after it, so the first n indices of  *)
(* a list extended to n+m are the n indices selected first, as in a single *)
(* request for n+m.                                                        *)
C3_CachedListsOnlyGrow ==
  /\ []C3_AsOneRequest
  /\ [][/\ IsPrefix(ListOf(idx_c), ListOf(idx_c'))
        /\ IsPrefix(ListOf(idx_r), ListOf(idx_r'))]_vars

(* A compute, loss or compute_P call found a cached column list and left a *)
(* longer one.                                                             *)
C3_Witness ==
  /\ last.op \in StoringCalls
  /\ last.err = "none"
  /\ last.lenBefore > 0
  /\ Len(ListOf(idx_c)) > last.lenBefore

(* C4: the symmetric flag of the constructor is true if and only if A is   *)
(* square and every entry of |A - A^T| is below symmetry_tolerance.        *)
C4_FlagIffWithinTolerance == symmetric <=> WithinTolerance(A)

(* C5 as stated: on a matrix symmetric within tolerance idx_r equals idx_c *)
(* after every compute call, for either setting of feature_select.         *)
C5_RowsAreColumns_AsStated ==
  (WithinTolerance(A) /\ last.op = "compute") => idx_r = idx_c

(* C5: on a matrix symmetric within tolerance and with feature_select off, *)
(* idx_r equals idx_c after every compute call, for every n_c and n_r.     *)
C5_RowsAreColumns ==
  (WithinTolerance(A) /\ ~fs /\ last.op = "compute") => idx_r = idx_c

(* A compute call on a symmetric matrix, feature_select off, has stored    *)
(* two columns and the same two rows.                                      *)
C5_Witness ==
  /\ WithinTolerance(A) /\ ~fs
  /\ last.op = "compute" /\ last.err = "none"
  /\ Len(ListOf(idx_c)) >= 2
  /\ idx_r = idx_c
(* What a well-formed call passes: n_r is given unless the mode fixes it.  *)
RowCountGiven(n_r) == fs \/ symmetric \/ n_r # NoCount

(* C6, the run: a rank deficiency never leaves a call as an exception, and *)
(* a call whose column run met it returns fewer than the n_c indices asked *)
(* for, the cached ones included, and stores what it returns.              *)
C6_EarlyReturn ==
  /\ last.err # "RankDeficiencyError"
  /\ (last.colEarly = "RankDeficiencyError" /\ last.err = "none")
       => /\ Len(last.usedC) < last.n_c
          /\ last.lenBefore <= Len(last.usedC)
          /\ last.op \in StoringCalls => idx_c = last.usedC

(* C6, the calls: the list such a run returns extends the cached list, and *)
(* a loss call that follows it for the count it returned succeeds and      *)
(* leaves the cached lists as they were.                                   *)
C6_Step ==
  /\ (last'.colEarly = "RankDeficiencyError" /\ last'.err = "none")
       => IsPrefix(ListOf(idx_c), last'.usedC)
  /\ (/\ last.colEarly = "RankDeficiencyError" /\ last.err = "none"
      /\ last.op \in StoringCalls
      /\ last'.op = "loss"
      /\ last'.n_c = Len(last.usedC)
      /\ RowCountGiven(last'.n_r))
       => /\ last'.err = "none"
          /\ idx_c' = idx_c
          /\ idx_r' = idx_r

(* C6: when get_Ct fails for rank deficiency in a new round, pcovr_select  *)
(* raises nothing and returns the indices gathered so far (fewer than n,   *)
(* the cached prefix included); a following loss call for that count       *)
(* succeeds and leaves the cached lists unchanged.                         *)
C6_RankDeficiencyReturnsEarly == []C6_EarlyReturn /\ [][C6_Step]_vars

(* A run met the rank deficiency after at least one index, and the loss    *)
(* call that followed for that many columns returned.                      *)
C6_Witness ==
  /\ last.op = "loss" /\ last.err = "none"
  /\ last.prevEarly = "RankDeficiencyError"
  /\ last.lenBefore >= 1
  /\ last.n_c = last.lenBefore
  /\ Len(ListOf(idx_c)) = last.lenBefore

(* C7: a selection run returns early only for rank deficiency: a shorter   *)
(* list than asked for always means that get_Ct found no eigenvalue above  *)
(* the regularization, for the columns and for the rows.                   *)
C7_OnlyRankDeficiencyReturnsEarly ==
  /\ last.colEarly \in {"none", "RankDeficiencyError"}
  /\ last.rowEarly \in {"none", "RankDeficiencyError"}

(* The rank of a matrix with at most one nonzero entry per column: the     *)
(* number of its nonzero rows.                                             *)
Rank(M) == Cardinality({r \in 1..NRows(M) : \E c \in 1..NCols(M) : M[r][c] # 0})

(* C8: for loss calls made in any order on one instance with the same row  *)
(* count, n_c <= n_c' <= rank(A) implies that the value loss(n_c')         *)
(* returned is no greater than the value loss(n_c) returned.               *)
C8_LossNonIncreasing ==
  \A e1, e2 \in lossLog :
    (e1.n_c <= e2.n_c /\ e2.n_c <= Rank(A) /\ e1.n_r = e2.n_r)
    => e2.loss <= e1.loss

(* C9: when a column run of pcovr_select has ended, its working copy of Y  *)
(* is orthogonal to every column of A the run has selected.                *)
C9_ResidualOrthogonalToSelected ==
  (/\ pif = "pcovr" /\ last.err = "none" /\ ~last.hit
   /\ last.op # "init" /\ ~last.nanEnd)
  => \A j \in Range(last.usedC) : Dot(Col(A, j), last.Yend) = 0
(* C10: a pcovr_select run resumed from the n indices of an earlier run up *)
(* to n + m ends as a direct run for n + m does: the same indices in the   *)
(* same order and the same working copies of A and of Y.                   *)
C10_ResumedEqualsDirect ==
  (probe.resumed.n > 0 /\ probe.direct.n = probe.resumed.n + probe.resumed.m)
  => \A r \in probe.resumed.out :
       \E d \in probe.direct.out :
         d.idxs = r.idxs /\ d.wc.M = r.wc.M /\ d.wc.Y = r.wc.Y /\ d.wc.nan = r.wc.nan

=============================================================================
